---- MODULE Spec2Model ----
(***************************************************************************)
(* Model of temporalio/bridge/worker.py: the Worker handle over the native *)
(* SDK Core reference (poll / complete / heartbeat / evict / shutdown /     *)
(* finalize_shutdown) and the payload transformation passes                 *)
(* decode_activation and encode_completion.                                 *)
(***************************************************************************)
EXTENDS Integers, Sequences, FiniteSets, TLC

\* ------------------------------------------------------------------ bounds
\* Number of concurrent asyncio tasks that call methods of one Worker handle.
NumTasks == 2
\* Total number of method calls made on the handle in one behaviour.
MaxCalls == 3
\* Jobs of an activation, commands of a completion.
MaxItems == 2
\* Payloads and failures carried by one activation or completion.
MaxLeaves == 4
\* Intervals of a retry policy run from 0 to MaxInterval steps of 0.75 s.
MaxInterval == 2
\* maximum_attempts of a retry policy runs from 0 to MaxAttempts.
MaxAttempts == 2

VARIABLES
    self_ref,   \* Worker._ref: "ref" (the native worker reference) or "None"
    phase,      \* lifecycle of the native core worker behind the reference
    pc,         \* per task: "idle", or "await" while suspended at an await
    last,       \* per task: record of the call the task made last
    stats,      \* counters over the whole behaviour (history)
    msg,        \* the activation / completion tree being transformed in place
    orig,       \* the tree as it was handed to the pass (history)
    pass,       \* position and status of the decode / encode pass
    inflight,   \* the codec call currently awaited: <<>> or <<call>>
    log,        \* every codec call made by the pass, in order (history)
    retry       \* a retry policy on its way to the wire message and back

workerVars == <<self_ref, phase, pc, last, stats>>
passVars == <<msg, orig, pass, inflight, log>>
retryVars == <<retry>>
vars ==
    <<self_ref, phase, pc, last, stats, msg, orig, pass, inflight, log, retry>>

\* ================================================================== Worker
Tasks == 1..NumTasks

PollOps == {"poll_workflow_activation", "poll_activity_task"}
CompleteOps == {"complete_workflow_activation", "complete_activity_task"}
SyncOps == {"record_activity_heartbeat", "request_workflow_eviction"}
AllOps == PollOps \cup CompleteOps \cup SyncOps \cup {"shutdown", "finalize_shutdown"}

NoCall ==
    [op |-> "none", reached |-> FALSE, outcome |-> "none",
     afterFinal |-> FALSE, afterEarly |-> FALSE, afterAbort |-> FALSE,
     overlapped |-> FALSE, early |-> FALSE]

\* Worker.__init__: the handle holds the reference new_worker returned.
WorkerInit ==
    /\ self_ref = "ref"
    /\ phase = "Active"
    /\ pc = [t \in Tasks |-> "idle"]
    /\ last = [t \in Tasks |-> NoCall]
    /\ stats = [calls |-> 0, finCore |-> 0, finOk |-> 0, earlyFailed |-> FALSE,
                pollAborted |-> FALSE]

\* The record of a call that task t starts now.
NewCall(t, op, reached, outcome) ==
    [op |-> op, reached |-> reached, outcome |-> outcome,
     afterFinal |-> (phase = "Finalized"),
     afterEarly |-> stats.earlyFailed,
     afterAbort |-> stats.pollAborted,
     overlapped |-> (\E u \in Tasks \ {t} :
                        pc[u] = "await" /\ last[u].op = "finalize_shutdown"),
     early |-> FALSE]

CanCall(t) == pc[t] = "idle" /\ stats.calls < MaxCalls

\* `self._ref.<method>` on a handle whose _ref is None raises AttributeError
\* before any native call is made and before the coroutine suspends.
StaleUse(t, op) ==
    /\ self_ref = "None"
    /\ last' = [last EXCEPT ![t] = NewCall(t, op, FALSE, "AttributeError")]
    /\ stats' = [stats EXCEPT !.calls = @ + 1]
    /\ UNCHANGED <<self_ref, phase, pc>>

\* `await self._ref.<method>(...)`: the native call is made and the task
\* suspends until the core resolves it.
CallAsync(t, op) ==
    /\ CanCall(t)
    /\ \/ /\ self_ref = "ref"
          /\ pc' = [pc EXCEPT ![t] = "await"]
          /\ last' = [last EXCEPT ![t] = NewCall(t, op, TRUE, "pending")]
          /\ stats' = [stats EXCEPT !.calls = @ + 1]
          /\ UNCHANGED <<self_ref, phase>>
       \/ StaleUse(t, op)
    /\ UNCHANGED <<passVars, retryVars>>

\* `self._ref.<method>(...)` without await: the native call returns or raises
\* at once.
CallSync(t, op) ==
    /\ CanCall(t)
    /\ \/ /\ self_ref = "ref"
          /\ \E r \in {"ok", "error"} :
                last' = [last EXCEPT ![t] = NewCall(t, op, TRUE, r)]
          /\ stats' = [stats EXCEPT !.calls = @ + 1]
          /\ UNCHANGED <<self_ref, phase, pc>>
       \/ StaleUse(t, op)
    /\ UNCHANGED <<passVars, retryVars>>

poll_workflow_activation(t) == CallAsync(t, "poll_workflow_activation")

poll_activity_task(t) == CallAsync(t, "poll_activity_task")

complete_workflow_activation(t) == CallAsync(t, "complete_workflow_activation")

complete_activity_task(t) == CallAsync(t, "complete_activity_task")

record_activity_heartbeat(t) == CallSync(t, "record_activity_heartbeat")

request_workflow_eviction(t) == CallSync(t, "request_workflow_eviction")

\* shutdown: the native call asks the core to drain.
shutdown(t) ==
    /\ CanCall(t)
    /\ \/ /\ self_ref = "ref"
          /\ pc' = [pc EXCEPT ![t] = "await"]
          /\ last' = [last EXCEPT ![t] = NewCall(t, "shutdown", TRUE, "pending")]
          /\ stats' = [stats EXCEPT !.calls = @ + 1]
          /\ phase' = IF phase = "Active" THEN "ShuttingDown" ELSE phase
          /\ UNCHANGED self_ref
       \/ StaleUse(t, "shutdown")
    /\ UNCHANGED <<passVars, retryVars>>

\* Faulty variant of finalize_shutdown: the handle keeps its reference while the
\* native finalize is awaited.
finalize_shutdown_keeps_ref(t) ==
    /\ CanCall(t)
    /\ \/ /\ self_ref = "ref"
          /\ pc' = [pc EXCEPT ![t] = "await"]
          /\ last' = [last EXCEPT
                        ![t] = NewCall(t, "finalize_shutdown", TRUE, "pending")]
          /\ stats' = [stats EXCEPT !.calls = @ + 1, !.finCore = @ + 1]
          /\ UNCHANGED <<self_ref, phase>>
       \/ StaleUse(t, "finalize_shutdown")
    /\ UNCHANGED <<passVars, retryVars>>

\* finalize_shutdown: ref = self._ref; self._ref = None; await
\* ref.finalize_shutdown().  With ref None the attribute lookup raises.
finalize_shutdown(t) ==
    /\ CanCall(t)
    /\ \/ /\ self_ref = "ref"
          /\ self_ref' = "None"
          /\ pc' = [pc EXCEPT ![t] = "await"]
          /\ last' = [last EXCEPT
                        ![t] = NewCall(t, "finalize_shutdown", TRUE, "pending")]
          /\ stats' = [stats EXCEPT !.calls = @ + 1, !.finCore = @ + 1]
          /\ UNCHANGED phase
       \/ StaleUse(t, "finalize_shutdown")
    /\ UNCHANGED <<passVars, retryVars>>

\* Faulty variant of CoreOutcomes: polls keep yielding work or errors after
\* the core has drained.
CoreOutcomes_polls_never_end(t) ==
    LET op == last[t].op IN
    IF op \in PollOps THEN {"ok", "error"}
    ELSE IF op \in CompleteOps THEN {"ok", "error"}
    ELSE IF op = "shutdown" THEN
        IF phase \in {"Drained", "Finalized"} THEN {"ok", "error"} ELSE {"error"}
    ELSE IF phase = "Drained" THEN {"ok", "error"} ELSE {"error"}

\* The outcomes the core can give the call task t awaits.  A poll yields
\* PollShutdownError once the core has drained; shutdown waits for the drain;
\* finalize fails unless shutdown has completed fully.
CoreOutcomes(t) ==
    LET op == last[t].op IN
    IF op \in PollOps THEN
        IF phase \in {"Drained", "Finalized"} THEN {"PollShutdownError"}
        ELSE {"ok", "error"}
    ELSE IF op \in CompleteOps THEN {"ok", "error"}
    ELSE IF op = "shutdown" THEN
        IF phase \in {"Drained", "Finalized"} THEN {"ok", "error"} ELSE {"error"}
    ELSE IF phase = "Drained" THEN {"ok", "error"} ELSE {"error"}

\* The core resolves the awaitable of task t; the coroutine returns or raises.
CoreResolve(t) ==
    /\ pc[t] = "await"
    /\ \E r \in CoreOutcomes(t) :
        /\ last' = [last EXCEPT
                        ![t].outcome = r,
                        ![t].early = (last[t].op = "finalize_shutdown"
                                      /\ phase \in {"Active", "ShuttingDown"})]
        /\ phase' = IF last[t].op = "finalize_shutdown" /\ r = "ok"
                    THEN "Finalized" ELSE phase
        /\ stats' = IF last[t].op = "finalize_shutdown"
                    THEN [stats EXCEPT
                            !.finOk = IF r = "ok" THEN @ + 1 ELSE @,
                            !.earlyFailed =
                                @ \/ (r # "ok" /\ phase \in {"Active", "ShuttingDown"})]
                    ELSE IF last[t].op \in PollOps /\ r = "error"
                    THEN [stats EXCEPT !.pollAborted = TRUE]
                    ELSE stats
    /\ pc' = [pc EXCEPT ![t] = "idle"]
    /\ UNCHANGED <<self_ref>>
    /\ UNCHANGED <<passVars, retryVars>>

\* The core finishes draining after shutdown was requested.
CoreDrain ==
    /\ phase = "ShuttingDown"
    /\ phase' = "Drained"
    /\ UNCHANGED <<self_ref, pc, last, stats>>
    /\ UNCHANGED <<passVars, retryVars>>

\* Faulty variant of CancelPoll: the cancelled poll takes the handle's
\* reference with it.
CancelPoll_drops_ref(t) ==
    /\ pc[t] = "await"
    /\ last[t].op \in PollOps
    /\ pc' = [pc EXCEPT ![t] = "idle"]
    /\ last' = [last EXCEPT ![t].outcome = "cancelled"]
    /\ stats' = [stats EXCEPT !.pollAborted = TRUE]
    /\ self_ref' = "None"
    /\ UNCHANGED phase
    /\ UNCHANGED <<passVars, retryVars>>

\* A suspended poll is cancelled from outside (asyncio cancellation): the
\* CancelledError leaves the coroutine at its await; the method has no
\* handler and no statement after the await, so self._ref is not touched.
CancelPoll(t) ==
    /\ pc[t] = "await"
    /\ last[t].op \in PollOps
    /\ pc' = [pc EXCEPT ![t] = "idle"]
    /\ last' = [last EXCEPT ![t].outcome = "cancelled"]
    /\ stats' = [stats EXCEPT !.pollAborted = TRUE]
    /\ UNCHANGED <<self_ref, phase>>
    /\ UNCHANGED <<passVars, retryVars>>

\* ========================================================= payload values
\* A payload value is its metadata mapping and its data blob; `type` tells
\* the bridge message class from the API message class.  The code never
\* inspects metadata or data, so every payload of a tree and every payload a
\* codec returns is given an identity <<call, item, slot>> of its own
\* (call 0: delivered with the tree; call c >= 1: returned by codec call c).
BridgePayload(id) == [type |-> "bridge", metadata |-> id, data |-> id]

ApiPayload(id) == [type |-> "api", metadata |-> id, data |-> id]

FailureValue(id) == [message |-> id]

\* from_bridge_payload: a new API payload with the bridge payload's contents.
from_bridge_payload(payload) ==
    [type |-> "api", metadata |-> payload.metadata, data |-> payload.data]

\* from_bridge_payloads: element by element, in order.
from_bridge_payloads(payloads) ==
    [i \in 1..Len(payloads) |-> from_bridge_payload(payloads[i])]

\* to_bridge_payload: a new bridge payload with the API payload's contents.
to_bridge_payload(payload) ==
    [type |-> "bridge", metadata |-> payload.metadata, data |-> payload.data]

\* to_bridge_payloads: element by element, in order.
to_bridge_payloads(payloads) ==
    [i \in 1..Len(payloads) |-> to_bridge_payload(payloads[i])]

\* ============================================================ message trees
\* One job of an activation or one command of a completion.  `payloads` is
\* the variant's repeated payload field, `result` its optional single payload,
\* `branch` the set member of its oneof, `failure` its failure message (<<>>
\* when absent), `memo` its string-keyed payload map.
Item(variant, payloads, branch, result, failure, memo) ==
    [variant |-> variant, payloads |-> payloads, branch |-> branch,
     result |-> result, failure |-> failure, memo |-> memo]

NoMemo == [k \in {} |-> 0]

MemoKeys == {1, 2}

\* Keys of a map in the order its values() are iterated.
RECURSIVE KeyOrder(_)
KeyOrder(keys) ==
    IF keys = {} THEN <<>>
    ELSE LET k == CHOOSE x \in keys : \A y \in keys : x <= y
         IN <<k>> \o KeyOrder(keys \ {k})

\* One codec invocation point of the traversal: which item, which field, and
\* which helper makes the call.
Leaf(item, via, field, key) ==
    [item |-> item, via |-> via, field |-> field, key |-> key]

\* Values of a memo, one codec call each, in iteration order.
MemoLeaves(i, job, via) ==
    LET ks == KeyOrder(DOMAIN job.memo)
    IN [n \in 1..Len(ks) |-> Leaf(i, via, "memo", ks[n])]

\* Faulty variant of start_workflow_leaves: continued_failure is decoded before the
\* arguments.
start_workflow_leaves_failure_first(i, job) ==
    (IF job.failure # <<>>
     THEN <<Leaf(i, "decode_failure", "failure", 0)>> ELSE <<>>)
    \o <<Leaf(i, "_decode_bridge_payloads", "payloads", 0)>>
    \o MemoLeaves(i, job, "codec.decode")

\* Faulty variant of start_workflow_leaves: continued_failure is never handed
\* to the Failure Codec.
start_workflow_leaves_no_failure(i, job) ==
    <<Leaf(i, "_decode_bridge_payloads", "payloads", 0)>>
    \o MemoLeaves(i, job, "codec.decode")

\* decode_activation, the start_workflow branch: arguments, then
\* continued_failure if present, then every memo value.
start_workflow_leaves(i, job) ==
    <<Leaf(i, "_decode_bridge_payloads", "payloads", 0)>>
    \o (IF job.failure # <<>>
        THEN <<Leaf(i, "decode_failure", "failure", 0)>> ELSE <<>>)
    \o MemoLeaves(i, job, "codec.decode")

\* decode_activation, the resolve_activity branch: the Outcome oneof is
\* tested with nested ifs.
resolve_activity_leaves(i, job) ==
    IF job.branch = "cancelled" THEN
        <<Leaf(i, "decode_failure", "failure", 0)>>
    ELSE IF job.branch = "completed" THEN
        IF job.result # <<>>
        THEN <<Leaf(i, "_decode_bridge_payload", "result", 0)>>
        ELSE <<>>
    ELSE IF job.branch = "failed" THEN
        <<Leaf(i, "decode_failure", "failure", 0)>>
    ELSE <<>>

\* Faulty variant of resolve_child_workflow_execution_leaves: the `failed`
\* branch is missing.
resolve_child_workflow_execution_leaves_no_failed(i, job) ==
    IF job.branch = "cancelled" THEN
        <<Leaf(i, "decode_failure", "failure", 0)>>
    ELSE IF job.branch = "completed" /\ job.result # <<>> THEN
        <<Leaf(i, "_decode_bridge_payload", "result", 0)>>
    ELSE <<>>

\* decode_activation, the resolve_child_workflow_execution branch: the same
\* Outcome oneof, tested with one elif per case.
resolve_child_workflow_execution_leaves(i, job) ==
    IF job.branch = "cancelled" THEN
        <<Leaf(i, "decode_failure", "failure", 0)>>
    ELSE IF job.branch = "completed" /\ job.result # <<>> THEN
        <<Leaf(i, "_decode_bridge_payload", "result", 0)>>
    ELSE IF job.branch = "failed" THEN
        <<Leaf(i, "decode_failure", "failure", 0)>>
    ELSE <<>>

\* Faulty variant of resolve_child_workflow_execution_start_leaves: the
\* `failed` branch is handed to the Failure Codec as well.
resolve_child_workflow_execution_start_leaves_failed_too(i, job) ==
    IF job.branch \in {"cancelled", "failed"}
    THEN <<Leaf(i, "decode_failure", "failure", 0)>>
    ELSE <<>>

\* decode_activation, the resolve_child_workflow_execution_start branch: only
\* `cancelled` carries a failure.
resolve_child_workflow_execution_start_leaves(i, job) ==
    IF job.branch = "cancelled"
    THEN <<Leaf(i, "decode_failure", "failure", 0)>>
    ELSE <<>>

\* decode_activation, the body of `for job in act.jobs`: the codec invocation
\* points of job number i, in the order the if/elif chain reaches them.
decode_job_leaves(i, job) ==
    IF job.variant = "cancel_workflow" THEN
        <<Leaf(i, "_decode_bridge_payloads", "payloads", 0)>>
    ELSE IF job.variant = "query_workflow" THEN
        <<Leaf(i, "_decode_bridge_payloads", "payloads", 0)>>
    ELSE IF job.variant = "resolve_activity" THEN
        resolve_activity_leaves(i, job)
    ELSE IF job.variant = "resolve_child_workflow_execution" THEN
        resolve_child_workflow_execution_leaves(i, job)
    ELSE IF job.variant = "resolve_child_workflow_execution_start" THEN
        resolve_child_workflow_execution_start_leaves(i, job)
    ELSE IF job.variant = "resolve_request_cancel_external_workflow" THEN
        IF job.failure # <<>>
        THEN <<Leaf(i, "decode_failure", "failure", 0)>>
        ELSE <<>>
    ELSE IF job.variant = "resolve_signal_external_workflow" THEN
        IF job.failure # <<>>
        THEN <<Leaf(i, "decode_failure", "failure", 0)>>
        ELSE <<>>
    ELSE IF job.variant = "signal_workflow" THEN
        <<Leaf(i, "_decode_bridge_payloads", "payloads", 0)>>
    ELSE IF job.variant = "start_workflow" THEN start_workflow_leaves(i, job)
    ELSE <<>>

\* Faulty variant of respond_to_query_leaves: whatever is not a succeeded
\* response is handed to the Failure Codec.
respond_to_query_leaves_else_failed(i, command) ==
    IF command.branch = "succeeded" /\ command.result # <<>> THEN
        <<Leaf(i, "_encode_bridge_payload", "result", 0)>>
    ELSE <<Leaf(i, "encode_failure", "failure", 0)>>

\* encode_completion, the respond_to_query branch.
respond_to_query_leaves(i, command) ==
    IF command.branch = "failed" THEN
        <<Leaf(i, "encode_failure", "failure", 0)>>
    ELSE IF command.branch = "succeeded" /\ command.result # <<>> THEN
        <<Leaf(i, "_encode_bridge_payload", "result", 0)>>
    ELSE <<>>

\* encode_completion, the body of `for command in comp.successful.commands`.
encode_command_leaves(i, command) ==
    IF command.variant = "complete_workflow_execution" THEN
        IF command.result # <<>>
        THEN <<Leaf(i, "_encode_bridge_payload", "result", 0)>>
        ELSE <<>>
    ELSE IF command.variant = "continue_as_new_workflow_execution" THEN
        <<Leaf(i, "_encode_bridge_payloads", "payloads", 0)>>
        \o MemoLeaves(i, command, "_encode_bridge_payload")
    ELSE IF command.variant = "fail_workflow_execution" THEN
        <<Leaf(i, "encode_failure", "failure", 0)>>
    ELSE IF command.variant = "respond_to_query" THEN
        respond_to_query_leaves(i, command)
    ELSE IF command.variant = "schedule_activity" THEN
        <<Leaf(i, "_encode_bridge_payloads", "payloads", 0)>>
    ELSE IF command.variant = "schedule_local_activity" THEN
        <<Leaf(i, "_encode_bridge_payloads", "payloads", 0)>>
    ELSE IF command.variant = "signal_external_workflow_execution" THEN
        <<Leaf(i, "_encode_bridge_payloads", "payloads", 0)>>
    ELSE IF command.variant = "start_child_workflow_execution" THEN
        <<Leaf(i, "_encode_bridge_payloads", "payloads", 0)>>
        \o MemoLeaves(i, command, "_encode_bridge_payload")
    ELSE <<>>

RECURSIVE decode_from(_, _)
decode_from(act, i) ==
    IF i > Len(act.items) THEN <<>>
    ELSE decode_job_leaves(i, act.items[i]) \o decode_from(act, i + 1)

\* decode_activation: every codec invocation point of the pass over act, jobs
\* in list order.
decode_activation_leaves(act) == decode_from(act, 1)

RECURSIVE encode_from(_, _)
encode_from(comp, i) ==
    IF i > Len(comp.items) THEN <<>>
    ELSE encode_command_leaves(i, comp.items[i]) \o encode_from(comp, i + 1)

\* Faulty variant of encode_completion_leaves: the `failed` branch is
\* missing, only the commands are walked.
encode_completion_leaves_no_failed(comp) ==
    IF comp.tag = "successful" THEN encode_from(comp, 1)
    ELSE <<>>

\* encode_completion: `failed` encodes the completion's failure only,
\* `successful` walks the commands in list order.
encode_completion_leaves(comp) ==
    IF comp.tag = "failed" THEN <<Leaf(0, "encode_failure", "failure", 0)>>
    ELSE IF comp.tag = "successful" THEN encode_from(comp, 1)
    ELSE <<>>

PassLeaves(tree, dir) ==
    IF dir = "decode" THEN decode_activation_leaves(tree)
    ELSE encode_completion_leaves(tree)

\* ------------------------------------------------------- input message trees
PayloadSeq(i, n) == [k \in 1..n |-> BridgePayload(<<0, i, k>>)]

OptPayload(i, present) == IF present THEN <<BridgePayload(<<0, i, 0>>)>> ELSE <<>>

OptFailure(i, present) == IF present THEN <<FailureValue(<<0, i, 0>>)>> ELSE <<>>

\* start_workflow.memo holds API payloads; the outbound memos hold bridge
\* payloads.
MemoOf(i, keys, type) ==
    [k \in keys |-> IF type = "api" THEN ApiPayload(<<0, i, 0 - k>>)
                    ELSE BridgePayload(<<0, i, 0 - k>>)]

\* Number of payloads and failures an item carries.
ItemSize(item) ==
    Len(item.payloads) + Len(item.result) + Len(item.failure)
    + Cardinality(DOMAIN item.memo)

\* The Outcome oneof of resolve_activity / resolve_child_workflow_execution.
Outcomes(i, variant) ==
    {Item(variant, <<>>, "none", <<>>, <<>>, NoMemo),
     Item(variant, <<>>, "cancelled", <<>>, OptFailure(i, TRUE), NoMemo),
     Item(variant, <<>>, "completed", <<>>, <<>>, NoMemo),
     Item(variant, <<>>, "completed", OptPayload(i, TRUE), <<>>, NoMemo),
     Item(variant, <<>>, "failed", <<>>, OptFailure(i, TRUE), NoMemo)}

\* Every job the core can put at position i with at most b payloads and
\* failures in it.
Jobs(i, b) ==
    {j \in
        {Item(v, PayloadSeq(i, n), "none", <<>>, <<>>, NoMemo) :
            v \in {"cancel_workflow", "query_workflow", "signal_workflow"},
            n \in 0..b}
        \cup Outcomes(i, "resolve_activity")
        \cup Outcomes(i, "resolve_child_workflow_execution")
        \cup {Item("resolve_child_workflow_execution_start", <<>>, br, <<>>,
                   OptFailure(i, br = "cancelled"), NoMemo) :
                br \in {"none", "succeeded", "failed", "cancelled"}}
        \cup {Item(v, <<>>, "none", <<>>, OptFailure(i, f), NoMemo) :
                v \in {"resolve_request_cancel_external_workflow",
                       "resolve_signal_external_workflow"},
                f \in BOOLEAN}
        \cup {Item("start_workflow", PayloadSeq(i, n), "none", <<>>,
                   OptFailure(i, f), MemoOf(i, ks, "api")) :
                n \in 0..b, f \in BOOLEAN, ks \in SUBSET MemoKeys}
        \cup {Item("fire_timer", <<>>, "none", <<>>, <<>>, NoMemo)}
     : ItemSize(j) <= b}

\* Every command the application can put at position i, likewise.
Commands(i, b) ==
    {c \in
        {Item("complete_workflow_execution", <<>>, "none", OptPayload(i, r),
              <<>>, NoMemo) : r \in BOOLEAN}
        \cup {Item(v, PayloadSeq(i, n), "none", <<>>, <<>>,
                   MemoOf(i, ks, "bridge")) :
                v \in {"continue_as_new_workflow_execution",
                       "start_child_workflow_execution"},
                n \in 0..b, ks \in SUBSET MemoKeys}
        \cup {Item("fail_workflow_execution", <<>>, "none", <<>>,
                   OptFailure(i, TRUE), NoMemo)}
        \cup {Item("respond_to_query", <<>>, "none", <<>>, <<>>, NoMemo),
              Item("respond_to_query", <<>>, "failed", <<>>,
                   OptFailure(i, TRUE), NoMemo),
              Item("respond_to_query", <<>>, "succeeded", <<>>, <<>>, NoMemo),
              Item("respond_to_query", <<>>, "succeeded", OptPayload(i, TRUE),
                   <<>>, NoMemo)}
        \cup {Item(v, PayloadSeq(i, n), "none", <<>>, <<>>, NoMemo) :
                v \in {"schedule_activity", "schedule_local_activity",
                       "signal_external_workflow_execution"},
                n \in 0..b}
        \cup {Item("start_timer", <<>>, "none", <<>>, <<>>, NoMemo)}
     : ItemSize(c) <= b}

ItemsAt(dir, i, b) == IF dir = "decode" THEN Jobs(i, b) ELSE Commands(i, b)

\* The plain items that surround the item under study in a longer list: one
\* that invokes no codec, one with a payload sequence, one with a single
\* payload and one with a failure.
ContextAt(dir, i, b) ==
    {it \in
        IF dir = "decode" THEN
            {Item("fire_timer", <<>>, "none", <<>>, <<>>, NoMemo),
             Item("resolve_activity", <<>>, "completed", OptPayload(i, TRUE),
                  <<>>, NoMemo),
             Item("resolve_signal_external_workflow", <<>>, "none", <<>>,
                  OptFailure(i, TRUE), NoMemo)}
            \cup {Item("signal_workflow", PayloadSeq(i, n), "none", <<>>, <<>>,
                       NoMemo) : n \in 1..b}
        ELSE
            {Item("start_timer", <<>>, "none", <<>>, <<>>, NoMemo),
             Item("complete_workflow_execution", <<>>, "none",
                  OptPayload(i, TRUE), <<>>, NoMemo),
             Item("fail_workflow_execution", <<>>, "none", <<>>,
                  OptFailure(i, TRUE), NoMemo)}
            \cup {Item("schedule_activity", PayloadSeq(i, n), "none", <<>>,
                       <<>>, NoMemo) : n \in 1..b}
     : ItemSize(it) <= b}

\* Item lists of k items from position i on with at most b payloads and
\* failures in all: position f holds any item, the others plain ones.
RECURSIVE ItemLists(_, _, _, _, _)
ItemLists(dir, k, f, i, b) ==
    IF i > k THEN {<<>>}
    ELSE UNION {{<<it>> \o rest :
                    rest \in ItemLists(dir, k, f, i + 1, b - ItemSize(it))} :
                it \in (IF i = f THEN ItemsAt(dir, i, b)
                        ELSE ContextAt(dir, i, b))}

Trees(dir) ==
    {<<>>} \cup UNION {ItemLists(dir, k, f, 1, MaxLeaves) :
                        k \in 1..MaxItems, f \in 1..MaxItems}

Activations ==
    {[tag |-> "activation", items |-> js, failure |-> <<>>] :
        js \in Trees("decode")}

Completions ==
    {[tag |-> "successful", items |-> cs, failure |-> <<>>] :
        cs \in Trees("encode")}
    \cup {[tag |-> "failed", items |-> <<>>, failure |-> OptFailure(0, TRUE)],
          [tag |-> "none", items |-> <<>>, failure |-> <<>>]}

\* ==================================================== transformation passes
CodecErrors == {"CodecError1", "CodecError2"}

PayloadVias ==
    {"_decode_bridge_payloads", "_encode_bridge_payloads",
     "_decode_bridge_payload", "_encode_bridge_payload", "codec.decode"}

SeqVias == {"_decode_bridge_payloads", "_encode_bridge_payloads"}

\* The message a leaf's field lives in.
LeafItem(tree, lf) == tree.items[lf.item]

\* Faulty variant of apply_to_bridge_payloads_calls: no short-circuit on empty input.
apply_to_bridge_payloads_always_calls(payloads) == TRUE

\* _apply_to_bridge_payloads: `if len(payloads) == 0: return` before the
\* callback is invoked.
apply_to_bridge_payloads_calls(payloads) == Len(payloads) # 0

\* Whether visiting the leaf invokes a codec at all.
InvokesCodec(tree, lf) ==
    IF lf.via \in SeqVias
    THEN apply_to_bridge_payloads_calls(LeafItem(tree, lf).payloads)
    ELSE TRUE

\* The argument the codec is invoked with at the leaf: the batch of API
\* payloads, or the failure message itself.
LeafBatch(tree, lf) ==
    IF lf.via \in SeqVias THEN from_bridge_payloads(LeafItem(tree, lf).payloads)
    ELSE IF lf.via = "codec.decode" THEN <<LeafItem(tree, lf).memo[lf.key]>>
    ELSE IF lf.field = "memo"
    THEN <<from_bridge_payload(LeafItem(tree, lf).memo[lf.key])>>
    ELSE IF lf.field = "result"
    THEN <<from_bridge_payload(LeafItem(tree, lf).result[1])>>
    ELSE IF lf.item = 0 THEN tree.failure
    ELSE LeafItem(tree, lf).failure

\* The pass runs without suspending from leaf number p to the first leaf
\* that invokes a codec; Len + 1 when it runs to the end.
RECURSIVE RunToAwait(_, _, _)
RunToAwait(tree, leaves, p) ==
    IF p > Len(leaves) THEN p
    ELSE IF InvokesCodec(tree, leaves[p]) THEN p
    ELSE RunToAwait(tree, leaves, p + 1)

\* Faulty variant of apply_to_bridge_payloads: the new payloads are put back in
\* reverse order.
apply_to_bridge_payloads_reversed(payloads, new) ==
    [i \in 1..Len(new) |-> to_bridge_payload(new[Len(new) + 1 - i])]

\* Faulty variant of apply_to_bridge_payloads: the container is not emptied
\* before the new payloads are added.
apply_to_bridge_payloads_appends(payloads, new) ==
    payloads \o to_bridge_payloads(new)

\* _apply_to_bridge_payloads after the await: new_payloads =
\* to_bridge_payloads(result); del payloads[:]; payloads.extend(new_payloads).
\* The value is the container's contents afterwards.
apply_to_bridge_payloads(payloads, new) == to_bridge_payloads(new)

\* _apply_to_bridge_payload after the await: new_payload = result[0];
\* metadata cleared and updated from it, data assigned from it.  (The memo
\* loop of decode_activation does the same inline.)
apply_to_bridge_payload(payload, new) ==
    [payload EXCEPT !.metadata = new[1].metadata, !.data = new[1].data]

\* The tree with the leaf's field holding what the codec returned.
Replaced(tree, lf, new) ==
    IF lf.via \in SeqVias THEN
        [tree EXCEPT !.items[lf.item].payloads = apply_to_bridge_payloads(@, new)]
    ELSE IF lf.field = "memo" THEN
        [tree EXCEPT !.items[lf.item].memo[lf.key] = apply_to_bridge_payload(@, new)]
    ELSE IF lf.field = "result" THEN
        [tree EXCEPT !.items[lf.item].result[1] = apply_to_bridge_payload(@, new)]
    ELSE IF lf.item = 0 THEN [tree EXCEPT !.failure = new]
    ELSE [tree EXCEPT !.items[lf.item].failure = new]

\* A call as the log records it.
Call(lf, batch) ==
    [leaf |-> lf, batch |-> batch, state |-> "pending", out |-> <<>>,
     error |-> "none"]

\* The pass continues over `tree` from leaf p until it suspends at the next
\* codec call or returns; lg is the log and fl the calls in flight so far.
Continue(tree, p, lg, fl) ==
    LET leaves == PassLeaves(tree, pass.dir)
        q == RunToAwait(tree, leaves, p)
    IN /\ msg' = tree
       /\ IF q > Len(leaves)
          THEN /\ pass' = [pass EXCEPT !.status = "done", !.pos = q]
               /\ inflight' = fl
               /\ log' = lg
          ELSE /\ pass' = [pass EXCEPT !.status = "awaiting", !.pos = q]
               /\ inflight' = Append(fl, leaves[q])
               /\ log' = Append(lg, Call(leaves[q], LeafBatch(tree, leaves[q])))

\* The pass ends with the exception e reaching the caller.
Raise(e, lg, fl) ==
    /\ pass' = [pass EXCEPT !.status = "failed", !.err = e]
    /\ msg' = msg
    /\ inflight' = fl
    /\ log' = lg

\* `await decode_activation(act, codec)` is called.
decode_activation ==
    /\ pass.dir = "decode"
    /\ pass.status = "ready"
    /\ Continue(msg, 1, log, inflight)
    /\ UNCHANGED orig
    /\ UNCHANGED <<workerVars, retryVars>>

\* `await encode_completion(comp, codec)` is called.
encode_completion ==
    /\ pass.dir = "encode"
    /\ pass.status = "ready"
    /\ Continue(msg, 1, log, inflight)
    /\ UNCHANGED orig
    /\ UNCHANGED <<workerVars, retryVars>>

\* Lengths of the list a Payload Codec may return for a batch of n: the
\* codec is a collaborator and may break its contract by one either way.
OutLens(n) == {m \in 0..(n + 1) : m >= n - 1}

\* The m payloads codec call number c returns.
CodecOutput(c, m) == [i \in 1..m |-> ApiPayload(<<c, 0, i>>)]

\* The log with its last call settled.
Settled(state, out, error) ==
    [log EXCEPT ![Len(log)] =
        [@ EXCEPT !.state = state, !.out = out, !.error = error]]

\* What the awaiting helper does with the list the Payload Codec returned:
\* `(await cb([...]))[0]` raises IndexError on an empty list; otherwise the
\* result is written into the tree and the pass goes on.
AfterPayloadCodec(lf, new) ==
    IF lf.via \notin SeqVias /\ Len(new) = 0
    THEN Raise("IndexError", Settled("returned", new, "none"), Tail(inflight))
    ELSE Continue(Replaced(msg, lf, new), pass.pos + 1,
                  Settled("returned", new, "none"), Tail(inflight))

\* The awaited Payload Codec call returns a list.
PayloadCodecReturn ==
    /\ pass.status = "awaiting"
    /\ inflight # <<>>
    /\ inflight[1].via \in PayloadVias
    /\ \E m \in OutLens(Len(log[Len(log)].batch)) :
          AfterPayloadCodec(inflight[1], CodecOutput(Len(log), m))
    /\ UNCHANGED orig
    /\ UNCHANGED <<workerVars, retryVars>>

\* decode_activation's memo loop hands the codec the memo value itself, not a
\* copy.  When the codec returns that same object, new_payload is val:
\* val.metadata.clear() empties the mapping that val.metadata.update(...) then
\* reads, so the value is left with no metadata and its data as it was.
decode_memo_same_object(val) == [val EXCEPT !.metadata = <<>>]

\* The awaited codec.decode([val]) of the memo loop returns a list holding
\* the payload object it was given.
PayloadCodecReturnsArgument ==
    /\ pass.status = "awaiting"
    /\ inflight # <<>>
    /\ inflight[1].via = "codec.decode"
    /\ LET lf == inflight[1]
       IN Continue([msg EXCEPT !.items[lf.item].memo[lf.key] =
                                    decode_memo_same_object(@)],
                   pass.pos + 1,
                   Settled("returned", log[Len(log)].batch, "none"),
                   Tail(inflight))
    /\ UNCHANGED orig
    /\ UNCHANGED <<workerVars, retryVars>>

\* The awaited decode_failure / encode_failure returns: it has transformed
\* the failure message in place.
FailureCodecReturn ==
    /\ pass.status = "awaiting"
    /\ inflight # <<>>
    /\ inflight[1].via \notin PayloadVias
    /\ LET new == <<FailureValue(<<Len(log), 0, 0>>)>>
       IN Continue(Replaced(msg, inflight[1], new), pass.pos + 1,
                   Settled("returned", new, "none"), Tail(inflight))
    /\ UNCHANGED orig
    /\ UNCHANGED <<workerVars, retryVars>>

\* Faulty variant of AfterCodecError: the error is swallowed and the pass goes on
\* with the next leaf.
AfterCodecError_swallowed(e) ==
    Continue(msg, pass.pos + 1, Settled("raised", <<>>, e), Tail(inflight))

\* What the pass does when the awaited codec call raises e: nothing catches
\* it, so it leaves decode_activation / encode_completion as it is.
AfterCodecError(e) == Raise(e, Settled("raised", <<>>, e), Tail(inflight))

\* The awaited Payload Codec or Failure Codec call raises.
CodecRaise ==
    /\ pass.status = "awaiting"
    /\ inflight # <<>>
    /\ \E e \in CodecErrors : AfterCodecError(e)
    /\ UNCHANGED orig
    /\ UNCHANGED <<workerVars, retryVars>>

\* ============================================================ retry policy
\* A timedelta is a number of microseconds; a protobuf Duration is seconds
\* and nanoseconds.  An optional value is <<>> (None, field not set) or <<x>>.
Duration(seconds, nanos) == [seconds |-> seconds, nanos |-> nanos]

\* Duration.FromTimedelta.
FromTimedelta(td) == Duration(td \div 1000000, (td % 1000000) * 1000)

\* Duration.ToTimedelta.
ToTimedelta(d) == d.seconds * 1000000 + (d.nanos \div 1000)

\* A new temporalio.bridge.proto.common.RetryPolicy message: every field at
\* its default, maximum_interval not set.
FreshRetryPolicy ==
    [initial_interval |-> Duration(0, 0),
     backoff_coefficient |-> 0,
     maximum_interval |-> <<>>,
     maximum_attempts |-> 0,
     non_retryable_error_types |-> <<>>]

\* Python truth value of an Optional[timedelta]: None and timedelta(0) are
\* false.
TimedeltaTruth(o) == o # <<>> /\ o[1] # 0

\* Python truth value of an optional list: None and the empty list are false.
ListTruth(o) == o # <<>> /\ o[1] # <<>>

\* retry_policy_to_proto(p, v): the message v after the call.
retry_policy_to_proto(p, v) ==
    [v EXCEPT
        !.initial_interval = FromTimedelta(p.initial_interval),
        !.backoff_coefficient = p.backoff_coefficient,
        !.maximum_interval =
            IF TimedeltaTruth(p.maximum_interval)
            THEN <<FromTimedelta(p.maximum_interval[1])>> ELSE @,
        !.maximum_attempts = p.maximum_attempts,
        !.non_retryable_error_types =
            IF ListTruth(p.non_retryable_error_types)
            THEN @ \o p.non_retryable_error_types[1] ELSE @]

\* retry_policy_from_proto(p): the policy built from message p.
retry_policy_from_proto(p) ==
    [initial_interval |-> ToTimedelta(p.initial_interval),
     backoff_coefficient |-> p.backoff_coefficient,
     maximum_interval |->
        IF p.maximum_interval # <<>>
        THEN <<ToTimedelta(p.maximum_interval[1])>> ELSE <<>>,
     maximum_attempts |-> p.maximum_attempts,
     non_retryable_error_types |-> <<p.non_retryable_error_types>>]

Intervals == {k * 750000 : k \in 0..MaxInterval}

\* The retry policies an application can build.
RetryPolicies ==
    [initial_interval : Intervals,
     backoff_coefficient : {1, 2},
     maximum_interval : {<<>>} \cup {<<d>> : d \in Intervals},
     maximum_attempts : 0..MaxAttempts,
     non_retryable_error_types :
        {<<>>, <<(<<>>)>>, <<(<<"ErrA">>)>>, <<(<<"ErrA", "ErrB">>)>>}]

RetryIdle == [step |-> "idle"]

\* retry_policy_to_proto(p, v) is called with a fresh message v.
CallRetryPolicyToProto ==
    /\ retry.step = "policy"
    /\ retry' = [step |-> "wire", p |-> retry.p,
                 v |-> retry_policy_to_proto(retry.p, FreshRetryPolicy)]
    /\ UNCHANGED <<workerVars, passVars>>

\* retry_policy_from_proto is called on the message written before.
CallRetryPolicyFromProto ==
    /\ retry.step = "wire"
    /\ retry' = [step |-> "back", p |-> retry.p, v |-> retry.v,
                 q |-> retry_policy_from_proto(retry.v)]
    /\ UNCHANGED <<workerVars, passVars>>

\* No pass runs while the Worker handle is exercised.
PassIdle ==
    /\ retry = RetryIdle
    /\ msg = <<>>
    /\ orig = <<>>
    /\ pass = [dir |-> "none", status |-> "idle", pos |-> 0, err |-> "none"]
    /\ inflight = <<>>
    /\ log = <<>>

Init == WorkerInit /\ PassIdle

Next ==
    \/ \E t \in Tasks : poll_workflow_activation(t)
    \/ \E t \in Tasks : poll_activity_task(t)
    \/ \E t \in Tasks : complete_workflow_activation(t)
    \/ \E t \in Tasks : complete_activity_task(t)
    \/ \E t \in Tasks : record_activity_heartbeat(t)
    \/ \E t \in Tasks : request_workflow_eviction(t)
    \/ \E t \in Tasks : shutdown(t)
    \/ \E t \in Tasks : finalize_shutdown(t)
    \/ \E t \in Tasks : CoreResolve(t)
    \/ \E t \in Tasks : CancelPoll(t)
    \/ CoreDrain

\* The Worker handle driven by NumTasks concurrent tasks.
Spec == Init /\ [][Next]_vars

\* The Worker handle with a core that makes progress: a drain that was
\* requested completes, and every awaited native call is resolved (the event
\* loop resumes a coroutine whose awaitable has settled).
SpecLive ==
    /\ Init
    /\ [][Next]_vars
    /\ WF_vars(CoreDrain)
    /\ \A t \in Tasks : WF_vars(CoreResolve(t))

\* A pass is about to run over an activation or a completion.
InitPass ==
    /\ WorkerInit
    /\ \/ /\ msg \in Activations
          /\ pass = [dir |-> "decode", status |-> "ready", pos |-> 0, err |-> "none"]
       \/ /\ msg \in Completions
          /\ pass = [dir |-> "encode", status |-> "ready", pos |-> 0, err |-> "none"]
    /\ orig = msg
    /\ inflight = <<>>
    /\ log = <<>>
    /\ retry = RetryIdle

NextPass ==
    \/ decode_activation
    \/ encode_completion
    \/ PayloadCodecReturn
    \/ PayloadCodecReturnsArgument
    \/ FailureCodecReturn
    \/ CodecRaise

\* One decode_activation or encode_completion pass with its codecs.
SpecPass == InitPass /\ [][NextPass]_vars

\* A retry policy is about to be converted.
InitRetry ==
    /\ WorkerInit
    /\ msg = <<>>
    /\ orig = <<>>
    /\ pass = [dir |-> "none", status |-> "idle", pos |-> 0, err |-> "none"]
    /\ inflight = <<>>
    /\ log = <<>>
    /\ \E p \in RetryPolicies : retry = [step |-> "policy", p |-> p]

NextRetry ==
    \/ CallRetryPolicyToProto
    \/ CallRetryPolicyFromProto

\* A retry policy is written to a fresh wire message and read back.
SpecRetry == InitRetry /\ [][NextRetry]_vars

\* ================================================================== claims
\* ---- Worker handle (specification Spec)

C2_FinalizedHandleRefusesAllUse ==
    \A t \in Tasks :
        last[t].afterFinal =>
            /\ last[t].op \in AllOps
            /\ last[t].outcome = "AttributeError"
            /\ ~last[t].reached
            /\ pc[t] = "idle"

\* C2 witness: a second finalize_shutdown() was made after one had succeeded.
C2_Witness ==
    \E t \in Tasks :
        /\ last[t].afterFinal
        /\ last[t].op = "finalize_shutdown"
        /\ stats.finOk = 1

\* C3: however finalize_shutdown() calls interleave, at most one of them
\* reaches the core's finalize with the native reference and at most one
\* succeeds; a call made while another one is suspended at its await fails
\* at once.
C3_AtMostOneFinalize ==
    /\ stats.finCore <= 1
    /\ stats.finOk <= 1
    /\ \A t \in Tasks :
        (last[t].op = "finalize_shutdown" /\ last[t].overlapped) =>
            /\ last[t].outcome = "AttributeError"
            /\ ~last[t].reached
            /\ pc[t] = "idle"

\* C3 witness: a finalize_shutdown() was made while another was suspended at
\* its await, and that other call then succeeded.
C3_Witness ==
    \E t \in Tasks :
        /\ last[t].op = "finalize_shutdown"
        /\ last[t].overlapped
        /\ stats.finOk = 1

\* ---- transformation passes (specification SpecPass)

\* The contents of the field a leaf names.
FieldOf(tree, lf) ==
    IF lf.field = "payloads" THEN tree.items[lf.item].payloads
    ELSE IF lf.field = "memo" THEN <<tree.items[lf.item].memo[lf.key]>>
    ELSE IF lf.field = "result" THEN tree.items[lf.item].result
    ELSE IF lf.item = 0 THEN tree.failure
    ELSE tree.items[lf.item].failure

\* The payload-sequence fields and the single-payload fields (optional
\* results and memo values) of the tree handed to the pass.
SeqLeaves ==
    {n \in 1..Len(PassLeaves(orig, pass.dir)) :
        PassLeaves(orig, pass.dir)[n].via \in SeqVias}

SingleLeaves ==
    {n \in 1..Len(PassLeaves(orig, pass.dir)) :
        PassLeaves(orig, pass.dir)[n].via \in PayloadVias \ SeqVias}

LeafAt(n) == PassLeaves(orig, pass.dir)[n]

CallsOf(lf) == {c \in 1..Len(log) : log[c].leaf = lf}

\* The pass has gone past leaf number n of the tree.
Passed(n) == pass.status = "done" \/ (pass.status = "awaiting" /\ pass.pos > n)

\* Payload p holds the metadata and the data of payload q.
SameContents(p, q) == p.metadata = q.metadata /\ p.data = q.data

\* C4: when a codec returns a list of another length than the batch it was
\* given for a payload-sequence field, the pass fails with an error, and that
\* field and every field after it keep their original contents.
C4_CountMismatchFailsPass ==
    \A n \in SeqLeaves : \A c \in CallsOf(LeafAt(n)) :
        (log[c].state = "returned" /\ Len(log[c].out) # Len(log[c].batch)) =>
            /\ pass.status = "failed"
            /\ \A k \in n..Len(PassLeaves(orig, pass.dir)) :
                FieldOf(msg, LeafAt(k)) = FieldOf(orig, LeafAt(k))

\* C5: a single payload (an optional result, a memo value) is handed to the
\* codec as a batch of one; when the codec returns zero payloads or more than
\* one, the pass fails with an error and the payload is not replaced.
C5_SinglePayloadCountChecked ==
    \A n \in SingleLeaves : \A c \in CallsOf(LeafAt(n)) :
        /\ Len(log[c].batch) = 1
        /\ (log[c].state = "returned" /\ Len(log[c].out) # 1) =>
            /\ pass.status = "failed"
            /\ FieldOf(msg, LeafAt(n)) = FieldOf(orig, LeafAt(n))

\* C6: when a codec call of the pass fails, the failure reaches the caller
\* and the tree is not left half-transformed: no field transformed earlier
\* in the pass stays replaced.
C6_NoPartialCommit ==
    (pass.status = "failed" /\ log # <<>> /\ log[Len(log)].state = "raised") =>
        (pass.err = log[Len(log)].error /\ msg = orig)

\* C7: for a payload-sequence field of N >= 1 payloads the codec is invoked
\* exactly once, with all N payloads in their original order, and once it
\* has returned, position i of the field holds the metadata and the data of
\* the i-th payload returned, for every i.
C7_SequenceReplacedPositionally ==
    \A n \in SeqLeaves :
        LET lf == LeafAt(n)
            old == FieldOf(orig, lf)
            now == FieldOf(msg, lf)
        IN Len(old) >= 1 =>
            /\ Cardinality(CallsOf(lf)) <= 1
            /\ Passed(n) => Cardinality(CallsOf(lf)) = 1
            /\ \A c \in CallsOf(lf) :
                /\ Len(log[c].batch) = Len(old)
                /\ \A i \in 1..Len(old) : SameContents(log[c].batch[i], old[i])
                /\ log[c].state = "returned" =>
                    /\ Len(now) = Len(log[c].out)
                    /\ \A i \in 1..Len(now) :
                        /\ SameContents(now[i], log[c].out[i])
                        /\ now[i].type = "bridge"
                /\ log[c].state # "returned" => now = old

\* C7 witness: a pass has finished in which a field of two or more payloads
\* was replaced by as many payloads.
C7_Witness ==
    /\ pass.status = "done"
    /\ \E n \in SeqLeaves : \E c \in CallsOf(LeafAt(n)) :
        /\ Len(log[c].batch) >= 2
        /\ Len(log[c].out) = Len(log[c].batch)
        /\ FieldOf(msg, LeafAt(n)) # FieldOf(orig, LeafAt(n))

\* C8: for a payload-sequence field of length 0 the pass makes no codec
\* call, and the field stays empty.
C8_EmptySequenceNoCall ==
    /\ \A n \in SeqLeaves :
        FieldOf(orig, LeafAt(n)) = <<>> =>
            /\ CallsOf(LeafAt(n)) = {}
            /\ FieldOf(msg, LeafAt(n)) = <<>>
    /\ \A c \in 1..Len(log) : log[c].batch # <<>>

\* C8 witness: a pass has finished that went over an empty payload sequence
\* and made a codec call for another field after it.
C8_Witness ==
    /\ pass.status = "done"
    /\ \E n \in SeqLeaves :
        /\ FieldOf(orig, LeafAt(n)) = <<>>
        /\ \E c \in 1..Len(log) : \E k \in (n + 1)..Len(PassLeaves(orig, pass.dir)) :
            log[c].leaf = LeafAt(k)

\* The order the pass is to follow: items in list order; within one item
\* the payload sequence (or the single result), then the failure, then the
\* memo values.
FieldRank(lf) ==
    IF lf.field \in {"payloads", "result"} THEN 1
    ELSE IF lf.field = "failure" THEN 2
    ELSE 3

Before(a, b) ==
    \/ a.item < b.item
    \/ a.item = b.item /\ FieldRank(a) < FieldRank(b)
    \/ a.item = b.item /\ a.field = "memo" /\ b.field = "memo" /\ a.key # b.key

\* C9: the codec calls of a pass are sequential and ordered: never two in
\* flight, a call starts only after the one before it has completed, calls
\* follow the order of the jobs (commands), and within one item the order is
\* arguments, then continued_failure, then memo values.
C9_CallsSequentialInOrder ==
    /\ Len(inflight) <= 1
    /\ \A c \in 1..Len(log) :
        log[c].state = "pending" => (c = Len(log) /\ inflight = <<log[c].leaf>>)
    /\ \A c, d \in 1..Len(log) : c < d => Before(log[c].leaf, log[d].leaf)

\* C9 witness: a decode pass has called the codecs for the arguments, the
\* continued_failure and a memo value of one start_workflow job, and for a
\* second job.
C9_Witness ==
    /\ pass.dir = "decode"
    /\ pass.status = "done"
    /\ \E c \in 1..Len(log) :
        /\ orig.items[log[c].leaf.item].variant = "start_workflow"
        /\ \E f \in CallsOf(Leaf(log[c].leaf.item, "decode_failure", "failure", 0)) :
           \E a \in 1..Len(log) : \E m \in 1..Len(log) :
            /\ log[a].leaf.item = log[c].leaf.item
            /\ log[a].leaf.field = "payloads"
            /\ log[m].leaf.item = log[c].leaf.item
            /\ log[m].leaf.field = "memo"
        /\ \E d \in 1..Len(log) : log[d].leaf.item # log[c].leaf.item

\* C10: once a codec call has raised, the pass has halted: that call is the
\* last one the pass made (no retry, no call for a later leaf), nothing is in
\* flight, and the error given to the caller is the codec's own.
C10_CodecErrorHaltsPass ==
    \A c \in 1..Len(log) :
        log[c].state = "raised" =>
            /\ c = Len(log)
            /\ inflight = <<>>
            /\ pass.status = "failed"
            /\ pass.err = log[c].error
            /\ log[c].error \in CodecErrors

\* C10 witness: a codec call has raised while a later leaf of the tree was
\* still to be transformed.
C10_Witness ==
    /\ pass.status = "failed"
    /\ Len(log) >= 2
    /\ log[Len(log)].state = "raised"
    /\ pass.pos < Len(PassLeaves(orig, pass.dir))

\* C11: encoding a completion whose tag is `failed` invokes the Failure Codec
\* exactly once, on the completion's own failure, never invokes the Payload
\* Codec and visits no command: the one call is there as soon as the pass has
\* started, no other call is ever made, and nothing but the failure changes.
C11_FailedCompletionEncodesFailureOnly ==
    (pass.dir = "encode" /\ orig.tag = "failed") =>
        /\ Len(log) <= 1
        /\ pass.status # "ready" => Len(log) = 1
        /\ \A c \in 1..Len(log) :
            /\ log[c].leaf.via = "encode_failure"
            /\ log[c].leaf.item = 0
            /\ log[c].batch = orig.failure
            /\ log[c].state = "returned" => msg.failure = log[c].out
            /\ log[c].state # "returned" => msg.failure = orig.failure
        /\ msg.items = orig.items
        /\ msg.tag = orig.tag

\* C11 witness: the encoding of a failed completion has finished with its
\* failure replaced by what the Failure Codec made of it.
C11_Witness ==
    /\ pass.dir = "encode"
    /\ orig.tag = "failed"
    /\ pass.status = "done"
    /\ Len(log) = 1
    /\ msg.failure # orig.failure

\* The codec invocations the decoder table asks for on job number i: which
\* codec, on which field (and memo key).
Due(i, codec, field, key) ==
    [item |-> i, codec |-> codec, field |-> field, key |-> key]

DecoderTable(i, job) ==
    (IF /\ job.variant \in {"cancel_workflow", "query_workflow",
                            "signal_workflow", "start_workflow"}
        /\ job.payloads # <<>>
     THEN {Due(i, "payload", "payloads", 0)} ELSE {})
    \cup (IF /\ job.variant \in {"resolve_activity",
                                  "resolve_child_workflow_execution"}
              /\ job.branch = "completed"
              /\ job.result # <<>>
           THEN {Due(i, "payload", "result", 0)} ELSE {})
    \cup (IF /\ job.variant \in {"resolve_activity",
                                  "resolve_child_workflow_execution"}
              /\ job.branch \in {"cancelled", "failed"}
           THEN {Due(i, "failure", "failure", 0)} ELSE {})
    \cup (IF /\ job.variant = "resolve_child_workflow_execution_start"
              /\ job.branch = "cancelled"
           THEN {Due(i, "failure", "failure", 0)} ELSE {})
    \cup (IF /\ job.variant \in {"resolve_request_cancel_external_workflow",
                                  "resolve_signal_external_workflow",
                                  "start_workflow"}
              /\ job.failure # <<>>
           THEN {Due(i, "failure", "failure", 0)} ELSE {})
    \cup (IF job.variant = "start_workflow"
           THEN {Due(i, "payload", "memo", k) : k \in DOMAIN job.memo}
           ELSE {})

DueCalls(act) == UNION {DecoderTable(i, act.items[i]) : i \in 1..Len(act.items)}

\* Which invocation of the table call number c of the log is.
Made(c) ==
    Due(log[c].leaf.item,
        IF log[c].leaf.via \in PayloadVias THEN "payload" ELSE "failure",
        log[c].leaf.field, log[c].leaf.key)

\* Scenario A: a signal_workflow job with three payloads, then a
\* start_workflow job with no arguments, a continued_failure and no memo.
ScenarioA ==
    /\ pass.dir = "decode"
    /\ Len(orig.items) = 2
    /\ orig.items[1].variant = "signal_workflow"
    /\ Len(orig.items[1].payloads) = 3
    /\ orig.items[2].variant = "start_workflow"
    /\ orig.items[2].payloads = <<>>
    /\ orig.items[2].failure # <<>>
    /\ DOMAIN orig.items[2].memo = {}

\* C12: a decode pass invokes the Payload Codec exactly once for each
\* non-empty payload sequence, each present optional result and each memo
\* value the decoder table names, the Failure Codec exactly once for each
\* present failure it names, and no codec anywhere else; in Scenario A that
\* is one Payload Codec call with the three payloads in order and one
\* Failure Codec call.
C12_DecodeCallsMatchTable ==
    pass.dir = "decode" =>
        /\ \A c \in 1..Len(log) : Made(c) \in DueCalls(orig)
        /\ \A c, d \in 1..Len(log) : Made(c) = Made(d) => c = d
        /\ pass.status = "done" => Len(log) = Cardinality(DueCalls(orig))
        /\ (ScenarioA /\ pass.status = "done") =>
            /\ Len(log) = 2
            /\ log[1].leaf.via \in PayloadVias
            /\ Len(log[1].batch) = 3
            /\ \A k \in 1..3 :
                SameContents(log[1].batch[k], orig.items[1].payloads[k])
            /\ log[2].leaf.via = "decode_failure"
            /\ log[2].batch = orig.items[2].failure

\* C12 witness: the decode pass over Scenario A has finished.
C12_Witness ==
    /\ ScenarioA
    /\ pass.status = "done"
    /\ Len(log) = 2

\* An item whose optional single payload is absent: resolve_activity or
\* resolve_child_workflow_execution completed without a result,
\* respond_to_query succeeded without a response, complete_workflow_execution
\* without a result.
AbsentPayload(item) ==
    /\ item.result = <<>>
    /\ \/ /\ item.variant \in {"resolve_activity",
                                 "resolve_child_workflow_execution"}
          /\ item.branch = "completed"
       \/ item.variant = "respond_to_query" /\ item.branch = "succeeded"
       \/ item.variant = "complete_workflow_execution"

\* C13: where an optional single payload is absent, the pass makes no codec
\* call for the item and leaves the item as it was.
C13_AbsentPayloadNoCall ==
    \A i \in 1..Len(orig.items) :
        AbsentPayload(orig.items[i]) =>
            /\ \A c \in 1..Len(log) : log[c].leaf.item # i
            /\ msg.items[i] = orig.items[i]

\* C13 witness: a pass has finished that went over an item with its optional
\* payload absent and called a codec for an item after it.
C13_Witness ==
    /\ pass.status = "done"
    /\ \E i \in 1..Len(orig.items) :
        /\ AbsentPayload(orig.items[i])
        /\ \E c \in 1..Len(log) :
            log[c].leaf.item > i /\ log[c].state = "returned"

\* The shape of an item: its variant, its Outcome branch, how many payloads
\* it has and of which message type, whether its optional result and
\* failure are there, and its memo keys.
ItemShape(item) ==
    [variant |-> item.variant,
     branch |-> item.branch,
     payloads |-> [k \in 1..Len(item.payloads) |-> item.payloads[k].type],
     result |-> [k \in 1..Len(item.result) |-> item.result[k].type],
     failure |-> Len(item.failure),
     memo |-> [k \in DOMAIN item.memo |-> item.memo[k].type]]

\* The shape of a tree: its tag, whether it has a failure of its own, and
\* the shapes of its items in list order.
Shape(tree) ==
    [tag |-> tree.tag,
     failure |-> Len(tree.failure),
     items |-> [i \in 1..Len(tree.items) |-> ItemShape(tree.items[i])]]

\* Every codec call so far gave back as many payloads as it was given.
CountPreserving ==
    \A c \in 1..Len(log) :
        log[c].state = "returned" => Len(log[c].out) = Len(log[c].batch)

\* C14: with a codec that returns as many payloads as it is given, a pass
\* never changes the shape of the tree (list lengths and order, variant
\* tags, Outcome branches, memo key sets), and a field no returned codec call
\* was made for keeps its contents.
C14_ShapePreserved ==
    CountPreserving =>
        /\ Shape(msg) = Shape(orig)
        /\ \A n \in 1..Len(PassLeaves(orig, pass.dir)) :
            (\A c \in CallsOf(LeafAt(n)) : log[c].state # "returned") =>
                FieldOf(msg, LeafAt(n)) = FieldOf(orig, LeafAt(n))

\* C14 witness: a pass with a count-preserving codec has finished after
\* replacing a payload sequence of two or more and one more field.
C14_Witness ==
    /\ pass.status = "done"
    /\ CountPreserving
    /\ Len(log) >= 2
    /\ \E c \in 1..Len(log) :
        /\ Len(log[c].batch) >= 2
        /\ FieldOf(msg, log[c].leaf) # FieldOf(orig, log[c].leaf)

\* The memo values of the tree handed to the pass.
MemoLeafNumbers ==
    {n \in 1..Len(PassLeaves(orig, pass.dir)) : LeafAt(n).field = "memo"}

\* C15: every memo value is transformed by a codec call of its own whose
\* batch is that one value: a memo of K entries gets exactly K calls, never
\* shared with the arguments or input, and once its call has returned a
\* payload, the key holds the metadata and the data of that payload.
C15_MemoValueOwnCall ==
    /\ \A n \in MemoLeafNumbers :
        LET lf == LeafAt(n)
        IN /\ Cardinality(CallsOf(lf)) <= 1
           /\ Passed(n) => Cardinality(CallsOf(lf)) = 1
           /\ \A c \in CallsOf(lf) :
               /\ Len(log[c].batch) = 1
               /\ SameContents(log[c].batch[1], FieldOf(orig, lf)[1])
               /\ (log[c].state = "returned" /\ Len(log[c].out) >= 1) =>
                   SameContents(FieldOf(msg, lf)[1], log[c].out[1])
    /\ \A c \in 1..Len(log) :
        log[c].leaf.field # "memo" =>
            \A k \in 1..Len(log[c].batch) :
                \A n \in MemoLeafNumbers :
                    log[c].batch[k] # FieldOf(orig, LeafAt(n))[1]

\* The codec calls made for item number i.
ItemCalls(i) == {c \in 1..Len(log) : log[c].leaf.item = i}

\* C16: for a resolve_child_workflow_execution_start job the Failure Codec
\* is invoked once, on the failure of the `cancelled` branch, and only for
\* that branch; with any other branch no codec is invoked and the job is
\* left as it was.
C16_ChildStartOnlyCancelled ==
    pass.dir = "decode" =>
        \A i \in 1..Len(orig.items) :
            orig.items[i].variant = "resolve_child_workflow_execution_start" =>
                IF orig.items[i].branch = "cancelled"
                THEN /\ Cardinality(ItemCalls(i)) <= 1
                     /\ pass.status = "done" => Cardinality(ItemCalls(i)) = 1
                     /\ \A c \in ItemCalls(i) :
                         /\ log[c].leaf.via = "decode_failure"
                         /\ log[c].batch = orig.items[i].failure
                ELSE /\ ItemCalls(i) = {}
                     /\ msg.items[i] = orig.items[i]

\* C16 witness: a decode pass has finished in which the Failure Codec
\* replaced the failure of a cancelled
\* resolve_child_workflow_execution_start job, and a later job had a codec
\* call of its own.
C16_Witness ==
    /\ pass.dir = "decode"
    /\ pass.status = "done"
    /\ \E i \in 1..Len(orig.items) :
        /\ orig.items[i].variant = "resolve_child_workflow_execution_start"
        /\ orig.items[i].branch = "cancelled"
        /\ Cardinality(ItemCalls(i)) = 1
        /\ msg.items[i].failure # orig.items[i].failure
        /\ \E c \in 1..Len(log) : log[c].leaf.item > i

\* ---- Worker handle, continued (specification Spec)

\* A step in which a suspended poll of some task is cancelled or fails.
PollAbortStep ==
    \E t \in Tasks :
        /\ pc[t] = "await"
        /\ last[t].op \in PollOps
        /\ pc'[t] = "idle"
        /\ last'[t].outcome \in {"cancelled", "error"}

\* C18: cancelling or failing a suspended poll leaves the handle's reference
\* (and the core's lifecycle) as it was, and a poll or shutdown() made
\* afterwards, on a handle no finalize_shutdown() has been called on, is
\* issued to the core all the same.
C18_AbortedPollLeavesHandle ==
    /\ [][PollAbortStep => (self_ref' = self_ref /\ phase' = phase)]_vars
    /\ [](stats.finCore = 0 =>
            \A t \in Tasks :
                (last[t].afterAbort /\ last[t].op \in PollOps \cup {"shutdown"})
                    => (last[t].reached /\ last[t].outcome # "AttributeError"))

\* C18 witness: after one task's poll was cancelled, the same task has
\* called shutdown() and the call has reached the core.
C18_Witness ==
    \E t \in Tasks :
        /\ last[t].afterAbort
        /\ last[t].op = "shutdown"
        /\ last[t].reached
        /\ stats.finCore = 0
        /\ \A u \in Tasks \ {t} : last[u].op = "none"

\* ---- Worker lifecycle (specification SpecLive)

PhaseRank(p) ==
    IF p = "Active" THEN 0
    ELSE IF p = "ShuttingDown" THEN 1
    ELSE IF p = "Drained" THEN 2
    ELSE 3

\* A step in which the poll task t awaits ends.
PollEnds(t) ==
    /\ pc[t] = "await"
    /\ last[t].op \in PollOps
    /\ pc'[t] = "idle"

\* Task t is suspended in a poll on a core that has drained.
PollHeldAfterDrain(t) ==
    /\ pc[t] = "await"
    /\ last[t].op \in PollOps
    /\ phase \in {"Drained", "Finalized"}

\* The core is not in the middle of a drain and holds no poll back after it.
CoreAtRest ==
    /\ phase # "ShuttingDown"
    /\ \A t \in Tasks : ~PollHeldAfterDrain(t)

\* C17: the lifecycle only moves forward (Active, ShuttingDown, Drained,
\* Finalized); every poll, on either stream, that ends once the core has
\* drained yields PollShutdownError (unless it was cancelled from outside);
\* and the core always comes back to a state where no drain is under way
\* and no poll is left suspended on a drained core: as the lifecycle never
\* moves back, a drain asked for by shutdown() completes and the polls
\* suspended then do end.
C17_ShutdownEndsPolls ==
    /\ [][PhaseRank(phase') >= PhaseRank(phase)]_vars
    /\ [][\A t \in Tasks :
            (PollEnds(t) /\ phase \in {"Drained", "Finalized"}) =>
                last'[t].outcome \in {"PollShutdownError", "cancelled"}]_vars
    /\ []<>CoreAtRest

\* C17 witness: shutdown() was called, the core has drained, and a poll made
\* after that has ended with PollShutdownError.
C17_Witness ==
    /\ phase = "Drained"
    /\ \E t, u \in Tasks :
        /\ last[u].op = "shutdown"
        /\ last[u].reached
        /\ last[t].op \in PollOps
        /\ last[t].outcome = "PollShutdownError"

\* ---- retry policy (specification SpecRetry)

\* The error type names of a policy; none when the list is absent.
NamesOf(policy) ==
    IF policy.non_retryable_error_types = <<>> THEN <<>>
    ELSE policy.non_retryable_error_types[1]

\* C19: a retry policy written to a fresh wire message and read back is the
\* policy that was written: same initial interval, backoff coefficient and
\* maximum attempts, an absent maximum interval still absent and a present
\* one (zero included) still present with its value, and the same
\* non-retryable error type names.
C19_RetryPolicyRoundTrip ==
    retry.step = "back" =>
        /\ retry.q.initial_interval = retry.p.initial_interval
        /\ retry.q.backoff_coefficient = retry.p.backoff_coefficient
        /\ retry.q.maximum_attempts = retry.p.maximum_attempts
        /\ retry.q.maximum_interval = retry.p.maximum_interval
        /\ NamesOf(retry.q) = NamesOf(retry.p)

\* ---- transformation passes, continued (specification SpecPass)

OutcomeJobs == {"resolve_activity", "resolve_child_workflow_execution"}

\* C20: resolve_activity and resolve_child_workflow_execution jobs are
\* handled alike for every Outcome (cancelled, completed with a result,
\* completed without one, failed, no branch): the branch of the decoder for
\* the one variant and the branch for the other name the same codec call on
\* the same field, the pass makes exactly that call for the job, and a call
\* that has returned leaves the job changed in that field only.
C20_OutcomeHandledAlike ==
    pass.dir = "decode" =>
        \A i \in 1..Len(orig.items) :
            orig.items[i].variant \in OutcomeJobs =>
                LET job == orig.items[i]
                    asActivity == resolve_activity_leaves(i, job)
                    asChild == resolve_child_workflow_execution_leaves(i, job)
                IN /\ asActivity = asChild
                   /\ Len(asActivity) =
                        IF \/ job.branch \in {"cancelled", "failed"}
                           \/ job.branch = "completed" /\ job.result # <<>>
                        THEN 1 ELSE 0
                   /\ Cardinality(ItemCalls(i)) <= Len(asActivity)
                   /\ pass.status = "done" =>
                        Cardinality(ItemCalls(i)) = Len(asActivity)
                   /\ \A c \in ItemCalls(i) :
                       /\ log[c].leaf = asActivity[1]
                       /\ log[c].leaf = asChild[1]
                       /\ log[c].state = "returned" =>
                            \/ pass.status = "failed"
                            \/ /\ FieldOf(msg, log[c].leaf) # FieldOf(orig, log[c].leaf)
                               /\ ItemShape(msg.items[i]) = ItemShape(job)
                   /\ ItemCalls(i) = {} => msg.items[i] = job

\* C20 witness: a decode pass has finished over a resolve_activity job and a
\* resolve_child_workflow_execution job, both completed with a result, and
\* each had its one codec call.
C20_Witness ==
    /\ pass.dir = "decode"
    /\ pass.status = "done"
    /\ \E i, j \in 1..Len(orig.items) :
        /\ orig.items[i].variant = "resolve_activity"
        /\ orig.items[j].variant = "resolve_child_workflow_execution"
        /\ orig.items[i].branch = "completed"
        /\ orig.items[j].branch = "completed"
        /\ Cardinality(ItemCalls(i)) = 1
        /\ Cardinality(ItemCalls(j)) = 1
        /\ msg.items[i].result # orig.items[i].result
        /\ msg.items[j].result # orig.items[j].result

\* The field of leaf lf holds all of what codec call number c returned for
\* it, and nothing else.
FullyNew(lf, c) ==
    LET now == FieldOf(msg, lf)
        out == log[c].out
    IN IF lf.via \in SeqVias THEN
           /\ Len(now) = Len(out)
           /\ \A k \in 1..Len(now) : SameContents(now[k], out[k])
       ELSE IF lf.via \in PayloadVias THEN
           /\ Len(out) >= 1
           /\ Len(now) = 1
           /\ SameContents(now[1], out[1])
       ELSE now = out

\* The field of leaf lf holds what it held when the pass was called.
FullyOld(lf) == FieldOf(msg, lf) = FieldOf(orig, lf)

\* C21: the replacement of a payload field has no suspension point inside
\* it, so whenever the pass is suspended at a codec call, or has ended,
\* every payload field is either fully old or fully new: it holds what it
\* held when the pass was called, or all of what its codec call returned,
\* never an emptied or half-replaced value.
C21_ReplacementNotObservableHalfway ==
    \A n \in 1..Len(PassLeaves(orig, pass.dir)) :
        \/ FullyOld(LeafAt(n))
        \/ \E c \in CallsOf(LeafAt(n)) :
            log[c].state = "returned" /\ FullyNew(LeafAt(n), c)

====
